---------------------------- MODULE Spec2Model ----------------------------
(***************************************************************************)
(* A model of the ELK file-IO calculator (ase/calculators/elk.py) and of   *)
(* the geometric part of the ForceQMMM test                                *)
(* (ase/test/forcefields/test_forceqmmm.py).                               *)
(*                                                                         *)
(* Three specifications share the module:                                  *)
(*   Spec      the ELK calculator object and the files of its directory    *)
(*   SpecConv  read_convergence as a function of the text of INFO.OUT      *)
(*   SpecQMMM  the QM/buffer partition of a periodic lattice               *)
(***************************************************************************)
EXTENDS Integers, Sequences, FiniteSets, TLC

VARIABLES
    \* ---- the ELK object
    atoms,              \* self.atoms: {} is None, {a} an Atoms object
    parameters,         \* self.parameters: key -> value, "absent" = no such key
    results,            \* keys of self.results
    scalars,            \* which of width, nbands, ... are assigned
    spinpol,            \* self.spinpol: "unset", "True", "False"
    \* ---- the calculator directory
    outfiles,           \* which of TOTENERGY.OUT, EIGVAL.OUT, KPOINTS.OUT exist
    info,               \* INFO.OUT: {} missing, {text} its text
    elk_in,             \* elk.in: {} missing, {a} the structure it holds
    parameters_ase,     \* parameters.ase: {} missing, {p} the parameters it holds
    \* ---- what the last call did
    lastOp,             \* the method called last
    err,                \* the exception it raised, "none" if it returned
    opened,             \* the files it opened, in order
    stored,             \* the keys it wrote to self.results
    base_changes,       \* check_state: what FileIOCalculator.check_state returned
    system_changes,     \* check_state: what ELK.check_state returned
    changed_parameters, \* set: what FileIOCalculator.set returned
    delegated,          \* get_forces: FileIOCalculator.get_forces was called
    ran,                \* the elk command was run by the call
    pre_results,        \* self.results before the call
    \* ---- SpecConv
    cv_text,            \* the text of INFO.OUT handed to read_convergence
    cv_converged,       \* what read_convergence returned for it
    cv_done,            \* read_convergence has been applied
    \* ---- SpecQMMM
    qm                  \* the ForceQMMM scenario, a record (see QInit)

elkVars == <<atoms, parameters, results, scalars, spinpol,
             outfiles, info, elk_in, parameters_ase,
             lastOp, err, opened, stored, base_changes, system_changes,
             changed_parameters, delegated, ran, pre_results>>
convVars == <<cv_text, cv_converged, cv_done>>
vars == <<elkVars, convVars, qm>>

----------------------------------------------------------------------------
(* Bounds *)

\* longest INFO.OUT text handed to read_convergence in SpecConv
MaxText == 4
\* SpecQMMM: largest number of lattice cells along an axis
MaxCell == 4
\* SpecQMMM: largest squared QM radius R_QM^2 (lattice units)
MaxRQ2 == 3
\* SpecQMMM: largest squared buffer width (lattice units)
MaxW2 == 4

----------------------------------------------------------------------------
(* Text: INFO.OUT as a sequence of characters.  Two-character stand-ins    *)
(* are used for the two markers read_convergence looks for.                *)

Alphabet == {"C", "c", "t", "R", "r", "m"}

\* str.lower() on one character
lowerChar(ch) == CASE ch = "C" -> "c"
                   [] ch = "R" -> "r"
                   [] OTHER -> ch

\* str.lower()
lower(s) == [i \in 1..Len(s) |-> lowerChar(s[i])]

\* Python's `sub in s` for strings
contains(s, sub) ==
    \E i \in 0..(Len(s) - Len(sub)) :
        \A j \in 1..Len(sub) : s[i + j] = sub[j]

\* 'convergence targets achieved'
MarkerAchieved == <<"c", "t">>
\* 'reached self-consistent loops maximum'
MarkerMaximum == <<"r", "m">>

read_convergence_NoLower(text) ==
    contains(text, MarkerAchieved) /\ ~contains(text, MarkerMaximum)

\* ELK.read_convergence on the text of INFO.OUT
read_convergence(text) ==
    LET t == lower(text)
    IN  contains(t, MarkerAchieved) /\ ~contains(t, MarkerMaximum)

Texts(n) == UNION {[1..k -> Alphabet] : k \in 0..n}


----------------------------------------------------------------------------
(* Values of the ELK model *)

\* An Atoms object, as far as the calculator looks at it
Atoms == [pbc : BOOLEAN, magmoms : 0..1]

ParamKeys == {"tforce", "spinpol"}
\* a Parameters dict; "absent" marks a key the dict does not hold
Params == {p \in [ParamKeys -> {"absent", "True", "False"}] :
              p["spinpol"] # "False"}
\* keyword arguments of set(); "absent" marks a keyword not passed
Kwargs == Params

\* dict.get(key): None for a missing key
get(params, key) == IF params[key] = "absent" THEN "None" ELSE params[key]

\* Python truth value of a parameter value
Truthy(v) == v = "True"

OutNames == {"TOTENERGY.OUT", "EIGVAL.OUT", "KPOINTS.OUT"}

\* INFO.OUT as ELK leaves it: no marker, converged, loop maximum reached,
\* both markers (ELK capitalises the first letter of either line)
InfoLogs == {<<>>, <<"C", "t">>, <<"R", "m">>, <<"C", "t", "R", "m">>}
InfoStates == {{}} \cup {{t} : t \in InfoLogs}

AllScalars == {"width", "nbands", "nelect", "niter", "magnetic_moment"}

\* file names as the methods build them: os.path.join gives a str,
\* the property `out` gives a pathlib.Path
totenergy == [type |-> "str", name |-> "TOTENERGY.OUT"]
eigval == [type |-> "str", name |-> "EIGVAL.OUT"]
kpoints == [type |-> "str", name |-> "KPOINTS.OUT"]
out == [type |-> "Path", name |-> "INFO.OUT"]

\* raise Exc('...' + filename): str + Path is a TypeError, raised while the
\* message is built, before Exc is constructed
raise_with(exc, filename) == IF filename.type = "str" THEN exc ELSE "TypeError"

\* os.path.isfile
isfile(of, inf, filename) ==
    IF filename.name = "INFO.OUT" THEN inf # {} ELSE filename.name \in of

----------------------------------------------------------------------------
(* Methods of the base class, ase.calculators.calculator *)

all_changes == <<"positions", "numbers", "cell", "pbc",
                 "initial_charges", "initial_magmoms">>

\* the properties in which two Atoms objects differ
differ(a, b) ==
    (IF a.pbc # b.pbc THEN {"pbc"} ELSE {})
    \cup (IF a.magmoms # b.magmoms THEN {"initial_magmoms"} ELSE {})

\* FileIOCalculator.check_state: every property when no atoms are stored,
\* else the properties that differ, in the order of all_changes
base_check_state(self_atoms, a) ==
    IF self_atoms = {} THEN all_changes
    ELSE LET old == CHOOSE x \in self_atoms : TRUE
         IN  SelectSeq(all_changes, LAMBDA n : n \in differ(old, a))

\* FileIOCalculator.set: stores each keyword whose value is new and returns
\* those keywords
base_set(params, kwargs) ==
    [changed |-> {k \in ParamKeys : kwargs[k] # "absent" /\ params[k] # kwargs[k]},
     parameters |-> [k \in ParamKeys |->
                        IF kwargs[k] # "absent" THEN kwargs[k] ELSE params[k]]]

\* ase.io.write(..., format='elk-in'): elk.in holds no boundary conditions
write_elk_in(a) == [magmoms |-> a.magmoms]

\* ase.io.elk.read_elk: the structure read back is periodic
read_elk(f) == [pbc |-> TRUE, magmoms |-> f.magmoms]

----------------------------------------------------------------------------
(* Methods of ELK *)

\* list.remove(x): drops the first x
remove(s, x) ==
    LET idx == {i \in 1..Len(s) : s[i] = x}
        first == CHOOSE i \in idx : \A j \in idx : i <= j
    IN  [i \in 1..(Len(s) - 1) |-> IF i < first THEN s[i] ELSE s[i + 1]]

check_state_KeepPbc(self_atoms, a) == base_check_state(self_atoms, a)

\* ELK.check_state
check_state(self_atoms, a) ==
    LET changes == base_check_state(self_atoms, a)
    IN  IF \E i \in 1..Len(changes) : changes[i] = "pbc"
        THEN remove(changes, "pbc")
        ELSE changes

ELK_set_NoReset(params, self_atoms, res, kwargs) ==
    LET b == base_set(params, kwargs)
    IN  [parameters |-> b.parameters, changed |-> b.changed,
         atoms |-> self_atoms, results |-> res]

\* ELK.set; reset() clears self.atoms and self.results
ELK_set(params, self_atoms, res, kwargs) ==
    LET b == base_set(params, kwargs)
    IN  IF b.changed # {}
        THEN [parameters |-> b.parameters, changed |-> b.changed,
              atoms |-> {}, results |-> {}]
        ELSE [parameters |-> b.parameters, changed |-> b.changed,
              atoms |-> self_atoms, results |-> res]

\* ELK.initialize: the new self.spinpol
initialize(params, a) ==
    IF params["spinpol"] = "absent"
    THEN (IF a.magmoms # 0 THEN "True" ELSE "False")
    ELSE params["spinpol"]

get_forces_raises_KeyOnly(params) == params["tforce"] = "absent"

\* ELK.get_forces: whether it raises PropertyNotImplementedError
get_forces_raises(params) == ~Truthy(get(params, "tforce"))

store_forces_Always(params) == TRUE

\* ELK.read_results: whether read_forces is called
store_forces(params) == Truthy(get(params, "tforce"))

\* ELK.read_results on a directory holding `of` and INFO.OUT `inf`.
\* The output files are taken to be well formed: only their presence and
\* the markers of INFO.OUT vary.
read_results(of, inf, params, spin, res, sc) ==
    IF inf = {}
    THEN [results |-> res, scalars |-> sc, stored |-> {},
          err |-> "FileNotFoundError", opened |-> <<>>]
    ELSE
    LET text == CHOOSE t \in inf : TRUE
        f == store_forces(params)
        res1 == res \cup {"free_energy", "energy"}
                    \cup (IF f THEN {"forces"} ELSE {})
        st1 == {"free_energy", "energy"} \cup (IF f THEN {"forces"} ELSE {})
        op1 == <<"INFO.OUT", "TOTENERGY.OUT">>
                 \o (IF f THEN <<"INFO.OUT">> ELSE <<>>) \o <<"INFO.OUT">>
        sc1 == sc \cup {"width"}
    IN  IF ~read_convergence(text)
        THEN [results |-> res, scalars |-> sc, stored |-> {},
              err |-> raise_with("RuntimeError", out),
              opened |-> <<"INFO.OUT">>]
        ELSE IF ~isfile(of, inf, totenergy)
        THEN [results |-> res, scalars |-> sc, stored |-> {},
              err |-> "FileNotFoundError", opened |-> <<"INFO.OUT">>]
        ELSE IF ~isfile(of, inf, eigval)
        THEN [results |-> res1, scalars |-> sc1, stored |-> st1,
              err |-> "FileNotFoundError", opened |-> op1]
        ELSE IF spin = "unset"
        THEN [results |-> res1, scalars |-> sc1, stored |-> st1,
              err |-> "AttributeError", opened |-> op1 \o <<"EIGVAL.OUT">>]
        ELSE [results |-> res1, scalars |-> AllScalars, stored |-> st1,
              err |-> "none",
              opened |-> op1 \o <<"EIGVAL.OUT", "INFO.OUT", "INFO.OUT",
                                  "INFO.OUT">>]

\* ELK.read: the first required file that is missing, in the order of the loop
first_missing(of, inf) ==
    LET required == <<totenergy, eigval, kpoints, out>>
        miss == {i \in 1..4 : ~isfile(of, inf, required[i])}
    IN  required[CHOOSE i \in miss : \A j \in miss : i <= j]


----------------------------------------------------------------------------
(* Spec: the ELK calculator *)

\* what a call leaves behind for the observer, apart from the object and files
Seen(op, e, opn, st, bc, sc, cp, dg, rn) ==
    /\ lastOp' = op
    /\ err' = e
    /\ opened' = opn
    /\ stored' = st
    /\ base_changes' = bc
    /\ system_changes' = sc
    /\ changed_parameters' = cp
    /\ delegated' = dg
    /\ ran' = rn
    /\ pre_results' = results

\* a calculator just constructed with the parameters p, in a directory
\* holding the output files of and the INFO.OUT inf
Fresh(p, of, inf) ==
    /\ atoms = {}
    /\ parameters = p
    /\ results = {}
    /\ scalars = {}
    /\ spinpol = "unset"
    /\ outfiles = of
    /\ info = inf
    /\ elk_in = {}
    /\ parameters_ase = {}
    /\ lastOp = "init"
    /\ err = "none"
    /\ opened = <<>>
    /\ stored = {}
    /\ base_changes = <<>>
    /\ system_changes = <<>>
    /\ changed_parameters = {}
    /\ delegated = FALSE
    /\ ran = FALSE
    /\ pre_results = {}

ConvIdle == cv_text = <<>> /\ cv_converged = FALSE /\ cv_done = FALSE

QIdle == qm = [phase |-> "off"]

\* ELK(**kwargs) on a directory that an earlier run of elk may have filled
Init ==
    /\ \E p \in Params, of \in SUBSET OutNames, inf \in InfoStates :
           Fresh(p, of, inf)
    /\ ConvIdle
    /\ QIdle

\* calc.check_state(a)
CheckState ==
    \E a \in Atoms :
        /\ Seen("check_state", "none", <<>>, {}, base_check_state(atoms, a),
                check_state(atoms, a), {}, FALSE, FALSE)
        /\ UNCHANGED <<atoms, parameters, results, scalars, spinpol,
                       outfiles, info, elk_in, parameters_ase, convVars, qm>>

\* calc.set(**kwargs)
Set ==
    \E kwargs \in Kwargs :
        LET r == ELK_set(parameters, atoms, results, kwargs)
        IN  /\ parameters' = r.parameters
            /\ atoms' = r.atoms
            /\ results' = r.results
            /\ Seen("set", "none", <<>>, {}, <<>>, <<>>, r.changed, FALSE, FALSE)
            /\ UNCHANGED <<scalars, spinpol, outfiles, info, elk_in,
                           parameters_ase, convVars, qm>>

\* calc.write_input(a)
WriteInput ==
    \E a \in Atoms :
        /\ spinpol' = initialize(parameters, a)
        /\ parameters_ase' = {parameters}
        /\ elk_in' = {write_elk_in(a)}
        /\ Seen("write_input", "none", <<>>, {}, <<>>, <<>>, {}, FALSE, FALSE)
        /\ UNCHANGED <<atoms, parameters, results, scalars, outfiles, info,
                       convVars, qm>>

\* calc.read_results()
ReadResults ==
    LET r == read_results(outfiles, info, parameters, spinpol, results, scalars)
    IN  /\ results' = r.results
        /\ scalars' = r.scalars
        /\ Seen("read_results", r.err, r.opened, r.stored, <<>>, <<>>, {},
                FALSE, FALSE)
        /\ UNCHANGED <<atoms, parameters, spinpol, outfiles, info, elk_in,
                       parameters_ase, convVars, qm>>

\* calc.read(label).  FileIOCalculator.read(self, label), called first,
\* selects the directory and touches neither atoms, parameters nor results.
Read ==
    IF \E f \in {totenergy, eigval, kpoints, out} : ~isfile(outfiles, info, f)
    THEN \* a required output file is missing
         /\ Seen("read", raise_with("ReadError", first_missing(outfiles, info)),
                 <<>>, {}, <<>>, <<>>, {}, FALSE, FALSE)
         /\ UNCHANGED <<atoms, parameters, results, scalars, spinpol,
                        outfiles, info, elk_in, parameters_ase, convVars, qm>>
    ELSE IF elk_in = {}
    THEN \* read_elk cannot open elk.in
         /\ Seen("read", "FileNotFoundError", <<>>, {}, <<>>, <<>>, {},
                 FALSE, FALSE)
         /\ UNCHANGED <<atoms, parameters, results, scalars, spinpol,
                        outfiles, info, elk_in, parameters_ase, convVars, qm>>
    ELSE IF parameters_ase = {}
    THEN \* Parameters.read cannot open parameters.ase
         /\ atoms' = {read_elk(CHOOSE a \in elk_in : TRUE)}
         /\ Seen("read", "FileNotFoundError", <<"elk.in">>, {}, <<>>, <<>>, {},
                 FALSE, FALSE)
         /\ UNCHANGED <<parameters, results, scalars, spinpol,
                        outfiles, info, elk_in, parameters_ase, convVars, qm>>
    ELSE LET a == read_elk(CHOOSE x \in elk_in : TRUE)
             p == CHOOSE x \in parameters_ase : TRUE
             sp == initialize(p, a)
             r == read_results(outfiles, info, p, sp, results, scalars)
         IN  /\ atoms' = {a}
             /\ parameters' = p
             /\ spinpol' = sp
             /\ results' = r.results
             /\ scalars' = r.scalars
             /\ Seen("read", r.err, <<"elk.in", "parameters.ase">> \o r.opened,
                     r.stored, <<>>, <<>>, {}, FALSE, FALSE)
             /\ UNCHANGED <<outfiles, info, elk_in, parameters_ase, convVars, qm>>

\* calc.get_forces(a).  FileIOCalculator.get_forces resets the calculator
\* when check_state reports a change and, when no forces are stored,
\* calculates: keeps a copy of the atoms, writes the input, runs the elk
\* command (which leaves INFO.OUT in any state, and the other output files
\* or none of them) and reads the results.
GetForces ==
    \E a \in Atoms :
        IF get_forces_raises(parameters)
        THEN /\ Seen("get_forces", "PropertyNotImplementedError", <<>>, {},
                     <<>>, <<>>, {}, FALSE, FALSE)
             /\ UNCHANGED <<atoms, parameters, results, scalars, spinpol,
                            outfiles, info, elk_in, parameters_ase, convVars, qm>>
        ELSE LET ch == check_state(atoms, a)
                 res0 == IF ch # <<>> THEN {} ELSE results
                 at0 == IF ch # <<>> THEN {} ELSE atoms
             IN  IF "forces" \in res0
                 THEN /\ atoms' = at0
                      /\ results' = res0
                      /\ Seen("get_forces", "none", <<>>, {}, <<>>, <<>>, {},
                              TRUE, FALSE)
                      /\ UNCHANGED <<parameters, scalars, spinpol, outfiles,
                                     info, elk_in, parameters_ase, convVars, qm>>
                 ELSE \E of \in {{}, OutNames}, inf \in InfoStates :
                      LET sp == initialize(parameters, a)
                          r == read_results(of, inf, parameters, sp, res0, scalars)
                      IN  /\ atoms' = {a}
                          /\ spinpol' = sp
                          /\ parameters_ase' = {parameters}
                          /\ elk_in' = {write_elk_in(a)}
                          /\ outfiles' = of
                          /\ info' = inf
                          /\ results' = r.results
                          /\ scalars' = r.scalars
                          /\ Seen("get_forces", r.err, r.opened, r.stored,
                                  <<>>, <<>>, {}, TRUE, TRUE)
                          /\ UNCHANGED <<parameters, convVars, qm>>

Next ==
    \/ CheckState
    \/ Set
    \/ WriteInput
    \/ ReadResults
    \/ Read
    \/ GetForces

Spec == Init /\ [][Next]_vars


----------------------------------------------------------------------------
(* SpecConv: read_convergence on every text up to MaxText characters *)

ConvInit ==
    /\ cv_text \in Texts(MaxText)
    /\ cv_converged = FALSE
    /\ cv_done = FALSE
    /\ Fresh([k \in ParamKeys |-> "absent"], {}, {})
    /\ QIdle

\* converged = self.read_convergence()
ReadConvergence ==
    /\ ~cv_done
    /\ cv_converged' = read_convergence(cv_text)
    /\ cv_done' = TRUE
    /\ UNCHANGED <<cv_text, elkVars, qm>>

ConvNext == ReadConvergence

SpecConv == ConvInit /\ [][ConvNext]_vars


----------------------------------------------------------------------------
(* SpecQMMM: the QM/buffer partition of the ForceQMMM test.                *)
(* The crystal is a square lattice with unit spacing in an orthorhombic    *)
(* cell of N[1] x N[2] sites, periodic along both axes; atom 0 sits at the *)
(* origin.  Lengths are compared through their squares, which are integers.*)

Axes == {1, 2}
Origin == <<0, 0>>

\* bulk_at * N: the positions of the atoms
Lattice(N) == (0..(N[1] - 1)) \X (0..(N[2] - 1))

abs(x) == IF x < 0 THEN -x ELSE x

\* minimum-image separation along one axis of n sites
mic(d, n) == IF n - abs(d) < abs(d) THEN n - abs(d) ELSE abs(d)

\* squared minimum-image distance, get_distances(..., mic=True)
dist2(p, q, N) ==
    mic(p[1] - q[1], N[1]) * mic(p[1] - q[1], N[1])
    + mic(p[2] - q[2], N[2]) * mic(p[2] - q[2], N[2])

\* sqrt(a2) < sqrt(b2) + sqrt(c2), for squares a2, b2, c2 >= 0
lt_sum(a2, b2, c2) ==
    \/ a2 < b2 + c2
    \/ (a2 - b2 - c2) * (a2 - b2 - c2) < 4 * b2 * c2

\* the test's qm_mask = r < R_QM, r the distance to atom 0
qm_mask(N, RQ2) == {i \in Lattice(N) : dist2(i, Origin, N) < RQ2}

\* r_qm.min(): the smallest squared distance from atom i to a QM atom
min_dist2(i, qmsel, N) ==
    LET ds == {dist2(i, q, N) : q \in qmsel}
    IN  CHOOSE m \in ds : \A d \in ds : m <= d

qm_buffer_mask_ref_NoRadius(N, RQ2, W2) ==
    LET qmsel == qm_mask(N, RQ2)
        sphere == {i \in Lattice(N) : dist2(i, Origin, N) < W2}
    IN  {i \in sphere : ~(min_dist2(i, qmsel, N) > W2)}

\* the test's reference mask: the sphere r < buffer + R_QM around atom 0,
\* less the atoms farther than the buffer width from every QM atom
qm_buffer_mask_ref(N, RQ2, W2) ==
    LET qmsel == qm_mask(N, RQ2)
        sphere == {i \in Lattice(N) : lt_sum(dist2(i, Origin, N), W2, RQ2)}
    IN  {i \in sphere : ~(min_dist2(i, qmsel, N) > W2)}

\* ForceQMMM.initialize_qm_buffer_mask: the atoms within the buffer width
\* of a QM atom
initialize_qm_buffer_mask(N, qmsel, W2) ==
    {i \in Lattice(N) : \E q \in qmsel : dist2(i, q, N) <= W2}

\* twice the QM radius along axis k: the largest separation of two QM atoms
qm_extent(N, qmsel, k) ==
    LET es == {mic(p[k] - q[k], N[k]) : p \in qmsel, q \in qmsel}
    IN  CHOOSE m \in es : \A e \in es : e <= m

\* a cell length: that of the original cell (n sites), or that of the cell
\* carved around the QM region (extent) and its buffer (squared width
\* root2), a length of its own
original_length(n) == [kind |-> "original", n |-> n, extent |-> 0, root2 |-> 0]
carved_length(extent, root2) ==
    [kind |-> "carved", n |-> 0, extent |-> extent, root2 |-> root2]

qm_cluster_pbc_AllOrNone(N, qmsel, W2) ==
    LET one(k) == LET gap == N[k] - qm_extent(N, qmsel, k)
                  IN  gap <= 0 \/ gap * gap < 4 * W2
    IN  [k \in Axes |-> \A j \in Axes : one(j)]

\* ForceQMMM.get_qm_cluster: the cluster stays periodic along an axis when
\* the cell is shorter than the QM region with its buffer,
\* cell < 2 * (qm_radius + buffer_width)
qm_cluster_pbc(N, qmsel, W2) ==
    [k \in Axes |->
        LET gap == N[k] - qm_extent(N, qmsel, k)
        IN  gap <= 0 \/ gap * gap < 4 * W2]

\* ForceQMMM.get_qm_cluster: the cell of the cluster, the original length
\* along a periodic axis and the carved one else
qm_cluster_cell(N, qmsel, W2, pbc) ==
    [k \in Axes |->
        IF pbc[k] THEN original_length(N[k])
        ELSE carved_length(qm_extent(N, qmsel, k), W2)]

\* qmmm = ForceQMMM(at, qm_mask, qm, mm, buffer_width) on a periodic lattice
QInit ==
    /\ \E N \in (1..MaxCell) \X (1..MaxCell), RQ2 \in 1..MaxRQ2, W2 \in 0..MaxW2 :
           qm = [phase |-> "new", N |-> N, RQ2 |-> RQ2, W2 |-> W2,
                 qm_selection_mask |-> qm_mask(N, RQ2),
                 qm_buffer_mask |-> {},
                 qm_cluster_pbc |-> [k \in Axes |-> FALSE],
                 qm_cluster_cell |-> [k \in Axes |-> original_length(0)],
                 cluster |-> [atoms |-> {},
                              pbc |-> [k \in Axes |-> FALSE],
                              cell |-> [k \in Axes |-> original_length(0)]]]
    /\ Fresh([k \in ParamKeys |-> "absent"], {}, {})
    /\ ConvIdle

\* qmmm.initialize_qm_buffer_mask(at)
InitializeQmBufferMask ==
    /\ qm.phase = "new"
    /\ qm' = [qm EXCEPT !.phase = "masked",
                        !.qm_buffer_mask =
                            initialize_qm_buffer_mask(qm.N, qm.qm_selection_mask,
                                                      qm.W2)]
    /\ UNCHANGED <<elkVars, convVars>>

\* qm_cluster = qmmm.get_qm_cluster(at)
GetQmCluster ==
    /\ qm.phase = "masked"
    /\ LET pbc == qm_cluster_pbc(qm.N, qm.qm_selection_mask, qm.W2)
           cell == qm_cluster_cell(qm.N, qm.qm_selection_mask, qm.W2, pbc)
       IN  qm' = [qm EXCEPT !.phase = "cluster",
                            !.qm_cluster_pbc = pbc,
                            !.qm_cluster_cell = cell,
                            !.cluster = [atoms |-> qm.qm_buffer_mask,
                                         pbc |-> pbc, cell |-> cell]]
    /\ UNCHANGED <<elkVars, convVars>>

QNext ==
    \/ InitializeQmBufferMask
    \/ GetQmCluster

SpecQMMM == QInit /\ [][QNext]_vars

----------------------------------------------------------------------------
(* Claims about the ELK calculator *)

\* a required output file is missing from the directory
SomeRequiredMissing == outfiles # OutNames \/ info = {}

\* C1: read(label) raises ReadError whenever one of TOTENERGY.OUT, EIGVAL.OUT,
\* KPOINTS.OUT, INFO.OUT is missing, before any file is opened and before
\* any result is stored.
C1_MissingFileIsReadError ==
    (lastOp = "read" /\ SomeRequiredMissing)
        => /\ err = "ReadError"
           /\ opened = <<>>
           /\ stored = {}
           /\ results = pre_results

\* the text of INFO.OUT holds the marker, whatever the case of its letters
Mentions(text, marker) ==
    \E i \in 1..Len(text) :
        /\ i + Len(marker) - 1 <= Len(text)
        /\ \A j \in 1..Len(marker) : lowerChar(text[i + j - 1]) = marker[j]

\* INFO.OUT exists and does not report convergence
LogNotConverged ==
    /\ info # {}
    /\ \A t \in info : ~Mentions(t, MarkerAchieved) \/ Mentions(t, MarkerMaximum)

\* C2: read_results() raises RuntimeError whenever the log does not report
\* convergence, and then stores no energy or forces and assigns none of
\* width, nbands, nelect, niter, magnetic_moment.
C2_NotConvergedIsRuntimeError ==
    (lastOp = "read_results" /\ LogNotConverged)
        => /\ err = "RuntimeError"
           /\ stored = {}
           /\ results = pre_results
           /\ opened = <<"INFO.OUT">>

\* C5: get_forces raises PropertyNotImplementedError without delegating to
\* the base class (no calculation is started) when 'tforce' is absent or
\* falsy, and a call stores results['forces'] only when 'tforce' is truthy.
C5_ForcesOnlyWithTforce ==
    /\ (lastOp = "get_forces" /\ parameters["tforce"] # "True")
           => /\ err = "PropertyNotImplementedError"
              /\ ~delegated
              /\ ~ran
              /\ results = pre_results
    /\ (lastOp = "get_forces" /\ parameters["tforce"] = "True") => delegated
    /\ "forces" \in stored => parameters["tforce"] = "True"

\* get_forces was refused although the key 'tforce' is set (to False)
C5_Witness ==
    /\ lastOp = "get_forces"
    /\ parameters["tforce"] = "False"
    /\ err = "PropertyNotImplementedError"

\* C6: the list check_state returns never holds 'pbc' and holds every other
\* change the base class reported, in the same order; a change of pbc alone
\* gives the empty list.
C6_CheckStateIgnoresPbc ==
    lastOp = "check_state"
        => /\ \A i \in 1..Len(system_changes) : system_changes[i] # "pbc"
           /\ system_changes = SelectSeq(base_changes, LAMBDA n : n # "pbc")
           /\ (base_changes = <<"pbc">> => system_changes = <<>>)

\* only the boundary conditions changed, and check_state reported nothing
C6_Witness ==
    /\ lastOp = "check_state"
    /\ base_changes = <<"pbc">>
    /\ system_changes = <<>>

\* C7: set(**kwargs) resets the calculator exactly when a parameter changed:
\* then the results computed before are gone, else they are untouched.
C7_SetResetsIffChanged ==
    lastOp = "set"
        => IF changed_parameters # {}
           THEN results = {} /\ atoms = {}
           ELSE results = pre_results

\* a set that changed a parameter discarded stored results
C7_Witness ==
    /\ lastOp = "set"
    /\ changed_parameters # {}
    /\ pre_results # {}
    /\ results = {}

\* C8: read_convergence returns True iff the lower-cased text holds
\* 'convergence targets achieved' and not 'reached self-consistent loops
\* maximum'; a log with both markers, or with neither, is not converged.
C8_ConvergedIffAchievedOnly ==
    cv_done
        => /\ cv_converged <=> (Mentions(cv_text, MarkerAchieved)
                                /\ ~Mentions(cv_text, MarkerMaximum))
           /\ (Mentions(cv_text, MarkerAchieved)
               /\ Mentions(cv_text, MarkerMaximum)) => ~cv_converged
           /\ (~Mentions(cv_text, MarkerAchieved)
               /\ ~Mentions(cv_text, MarkerMaximum)) => ~cv_converged

\* a log with both markers, the first with a capital letter, was read as
\* not converged
C8_Witness ==
    /\ cv_done
    /\ ~cv_converged
    /\ cv_text = <<"C", "t", "R", "m">>


----------------------------------------------------------------------------
(* Claims about the QM/buffer partition *)

\* the atoms whose minimum-image distance to some QM atom is at most the
\* buffer width
WithinBuffer ==
    {i \in Lattice(qm.N) :
        \E q \in Lattice(qm.N) :
            /\ dist2(q, Origin, qm.N) < qm.RQ2
            /\ dist2(i, q, qm.N) <= qm.W2}

Spans(k) ==
    LET far == {abs(p[k] - q[k]) : p \in qm.qm_selection_mask,
                                   q \in qm.qm_selection_mask}
        wrap == {IF d > qm.N[k] - d THEN qm.N[k] - d ELSE d : d \in far}
    IN  \E e \in wrap :
            /\ \A x \in wrap : x <= e
            /\ lt_sum(qm.N[k] * qm.N[k], e * e, 4 * qm.W2)

============================================================================
